---- MODULE Spec2Model ----
(***************************************************************************)
(* Model of src/trm/sla/sla.cc: the four Python entry points sla_dtt,      *)
(* sla_cldj, sla_utc2tdb and sla_amass.                                    *)
(*                                                                         *)
(* The handlers keep no data between calls, so the state of the model is   *)
(* what each caller observed of its latest call: the arguments, the error  *)
(* message or the result tuple, the SLALIB routines invoked (in order) and *)
(* the handler's local variables.                                          *)
(*                                                                         *)
(* Doubles are counted in integer units:                                   *)
(*   degrees, hours (ra), microns (wave), metres (height)  : units of 1    *)
(*   hours (the hour angle haob)   : 1/108000 hour                         *)
(*   radians                       : arcseconds  (PI = 648000)             *)
(*   days (MJD)                    : 1e-9 day, from MJD 51178.0            *)
(*   seconds                       : milliseconds                          *)
(*   Julian years                  : 1e-3 year                             *)
(*   lengths in AU                 : 1e-6 AU                               *)
(*   lengths in metres             : kilometres                            *)
(* The SLALIB routines are outside src/; each is a deterministic stand-in  *)
(* with the routine's name, its units and its documented range.            *)
(***************************************************************************)
EXTENDS Integers, Sequences, FiniteSets, TLC

VARIABLES st

vars == <<st>>

(* ------------------------------ constants ------------------------------ *)

\* Constants::PI, in arcseconds
PI == 648000
TWOPI == 2 * PI
\* const double CFAC = Constants::PI/180.
CFAC == PI \div 180
\* Constants::AU: kilometres per 1e-6 AU (149.6 rounded)
AU == 150
\* Constants::C: kilometres per millisecond (299.79 rounded)
C == 300
\* one day in units of 1e-9 day
NdPerDay == 1000000000
\* x/Constants::DAY: seconds (in ms) to days (in 1e-9 day); 1 ms = 625/54 e-9 day
DivDAY(ms) == (ms * 625) \div 54

NoErr == ""
NoLoc == [none |-> TRUE]
Idle == [op |-> "idle", args |-> [none |-> TRUE], err |-> NoErr, res |-> << >>,
         trace |-> << >>, loc |-> NoLoc]

Abs(x) == IF x < 0 THEN -x ELSE x
Dot(a, b) == a[1] * b[1] + a[2] * b[2] + a[3] * b[3]
VAdd(a, b) == <<a[1] + b[1], a[2] + b[2], a[3] + b[3]>>
VScale(a, k) == <<a[1] * k, a[2] * k, a[3] * k>>
\* v * (Constants::AU/Constants::DAY): 1e-6 AU/day to m/s  (AU*1000/86400 = AU*5/432)
VelScale(a) == <<(a[1] * AU * 5) \div 432, (a[2] * AU * 5) \div 432, (a[3] * AU * 5) \div 432>>

(* ------------------------- SLALIB stand-ins ---------------------------- *)

\* TT-UTC in ms: 32.184 s + TAI-UTC, which steps from 31 s to 32 s at MJD 51179.0
slaDtt(utc) == IF utc < NdPerDay THEN 63184 ELSE 64184

IsLeap(iy) == (iy % 4 = 0) /\ ((iy % 100 # 0) \/ (iy % 400 = 0))
MonthLen(iy, im) ==
    IF im = 2 THEN (IF IsLeap(iy) THEN 29 ELSE 28)
    ELSE IF im \in {4, 6, 9, 11} THEN 30 ELSE 31
\* the Gregorian calendar to MJD conversion (integer arithmetic as in SLALIB)
CldjMjd(iy, im, id) ==
    LET a == (12 - im) \div 10
    IN  (1461 * (iy - a + 4712)) \div 4
        + (306 * ((im + 9) % 12) + 5) \div 10
        - (3 * ((iy - a + 4900) \div 100)) \div 4
        + id - 2399904
\* status 1: bad year, 2: bad month (neither computes the MJD), 3: bad day
\* (the MJD is computed all the same), 0: OK
slaCldj(iy, im, id) ==
    IF iy < -4699 THEN [status |-> 1, mjd |-> 0, set |-> FALSE]
    ELSE IF im < 1 \/ im > 12 THEN [status |-> 2, mjd |-> 0, set |-> FALSE]
    ELSE [status |-> IF id < 1 \/ id > MonthLen(iy, im) THEN 3 ELSE 0,
          mjd |-> CldjMjd(iy, im, id), set |-> TRUE]

\* geodetic to geocentric: distance from the axis and from the equator, 1e-6 AU
slaGeoc(p, h) ==
    LET r == 43 + h \div 150000
    IN  <<(r * (90 - Abs(p \div CFAC))) \div 90, (r * (p \div CFAC)) \div 90>>

\* TDB-TT in ms: periodic, of either sign, amplitude below 2 ms
slaRcc(tdb, ut, wl, u, v) ==
    ((tdb \div 1000 + ut \div 1000 + wl \div CFAC + u + v) % 3) - 1

\* Earth position (1e-6 AU) and velocity (1e-6 AU/day), heliocentric and barycentric
slaEpv(date) ==
    LET d  == date \div (NdPerDay \div 2)
        ph == <<-170000 - 8000 * d, 890000 - 1500 * d, 386000 - 600 * d>>
        vh == <<-17200, -2800, -1200>>
    IN  [ph |-> ph, vh |-> vh,
         pb |-> VAdd(ph, <<-7000, -3000, -1000>>), vb |-> VAdd(vh, <<1, 2, 0>>)]

\* Greenwich mean sidereal time, radians in [0, 2pi)
slaGmst(ut1) == ((ut1 % NdPerDay) \div 1000000) * (TWOPI \div 1000)
\* equation of the equinoxes, radians
slaEqeqx(date) == (date \div NdPerDay) - 14

\* quadrant of an angle: 0 for [-45,45) degrees about 0, 1 about 90, 2 about 180, 3 about 270
Quadrant(a) == (((a + PI \div 4) % TWOPI) \div (PI \div 2))
\* position (1e-6 AU) and velocity of the observing station
slaPvobs(p, h, stl) ==
    LET uv == slaGeoc(p, h)
        q  == Quadrant(stl)
        x  == IF q = 0 THEN uv[1] ELSE IF q = 2 THEN -uv[1] ELSE 0
        y  == IF q = 1 THEN uv[1] ELSE IF q = 3 THEN -uv[1] ELSE 0
    IN  <<x, y, uv[2], -(y \div 40), x \div 40, 0>>

\* precession-nutation matrix: the identity, or a quarter turn about the pole
slaPneqx(date) ==
    IF (date \div (NdPerDay \div 2)) % 2 = 0
    THEN <<<<1, 0, 0>>, <<0, 1, 0>>, <<0, 0, 1>>>>
    ELSE <<<<0, 1, 0>>, <<-1, 0, 0>>, <<0, 0, 1>>>>
\* the inverse (transpose) of matrix dm applied to vector va
slaDimxv(dm, va) ==
    <<dm[1][1] * va[1] + dm[2][1] * va[2] + dm[3][1] * va[3],
      dm[1][2] * va[1] + dm[2][2] * va[2] + dm[3][2] * va[3],
      dm[1][3] * va[1] + dm[2][3] * va[2] + dm[3][3] * va[3]>>

\* MJD to Julian epoch, 1e-3 year (MJD 51178.0 is 1998.997)
slaEpj(date) == 1998997 + (date \div 1000000) \div 365

\* space motion from epoch ep0 to ep1
slaPm(r0, d0, pr, pd, px, rv, ep0, ep1) ==
    LET r1 == (r0 + (pr * (ep1 - ep0)) \div 1000) % TWOPI
        d1 == d0 + (pd * (ep1 - ep0)) \div 1000
    IN  <<r1, IF d1 > PI \div 2 THEN PI \div 2 ELSE IF d1 < -(PI \div 2) THEN -(PI \div 2) ELSE d1>>

\* spherical coordinates to a unit vector (the nearest axis)
slaDcs2c(a, b) ==
    IF b >= PI \div 4 THEN <<0, 0, 1>>
    ELSE IF b < -(PI \div 4) THEN <<0, 0, -1>>
    ELSE LET q == Quadrant(a)
         IN  IF q = 0 THEN <<1, 0, 0>> ELSE IF q = 1 THEN <<0, 1, 0>>
             ELSE IF q = 2 THEN <<-1, 0, 0>> ELSE <<0, -1, 0>>

\* an angle normalised into (-pi, pi]
Range(a) == LET m == a % TWOPI IN IF m > PI THEN m - TWOPI ELSE m

\* apparent to observed place: azimuth, zenith distance, hour angle, dec, ra (radians)
slaI2o(ri, di, date, dut, elong, phi, hm, xp, yp, tk, pmb, rh, wl, tlr) ==
    LET ha == Range(slaGmst(date) + elong - ri)
        z  == Abs(phi - di) + Abs(ha) \div 2
    IN  [azob |-> (ha + PI) % TWOPI,
         zdob |-> IF z > PI THEN PI ELSE z,
         haob |-> ha, decob |-> di, raob |-> ri]

\* refraction coefficients, radians
slaRefcoq(tk, pmb, rh, wl) == [refa |-> 58 + (wl % 3), refb |-> -1]
tan(z) ==
    LET d == z \div CFAC
    IN  IF d < 30 THEN 0 ELSE IF d < 50 THEN 1 ELSE IF d < 70 THEN 2 ELSE IF d < 80 THEN 5 ELSE 50
slaAirmas(zd) ==
    LET d == zd \div CFAC
    IN  IF d < 45 THEN 1 ELSE IF d < 65 THEN 2 ELSE IF d < 75 THEN 3 ELSE 10

\* parallactic angle, radians in (-pi, pi]: 0 or pi on the meridian, the sign of
\* the hour angle elsewhere; whole degrees
slaPa(ha, dec, phi) ==
    LET h == Range(ha)
        m == CFAC * (1 + ((Abs(h) + Abs(dec) + Abs(phi)) % 179))
    IN  IF h = 0 THEN (IF dec <= phi THEN 0 ELSE PI)
        ELSE IF h > 0 THEN m ELSE -m

(* ------------------------------ sla_dtt -------------------------------- *)

sla_dtt(t, utc) ==
    LET d == slaDtt(utc)
    IN  st' = [st EXCEPT ![t] =
                 [op |-> "dtt", args |-> [utc |-> utc], err |-> NoErr, res |-> <<d>>,
                  trace |-> <<"slaDtt">>, loc |-> [d |-> d]]]

(* ------------------------------ sla_cldj ------------------------------- *)

\* mutant: mjd and status kept in static storage, so that a call made while another
\* caller's sla_cldj has not returned reads the values that call left
cldj_call_static(t, year, month, day) ==
    IF \E u \in DOMAIN st \ {t} : st[u].op = "cldj"
    THEN LET u == CHOOSE u \in DOMAIN st \ {t} : st[u].op = "cldj"
         IN  slaCldj(st[u].args.year, st[u].args.month, st[u].args.day)
    ELSE slaCldj(year, month, day)

\* double mjd; int status; slaCldj(year, month, day, &mjd, &status): locals of the call
cldj_call(t, year, month, day) == slaCldj(year, month, day)

\* mutant: the status == 3 branch is missing
cldj_error_noday(status, year, month, day) ==
    IF status = 1 THEN "sla.cldj: bad year = " \o ToString(year)
    ELSE IF status = 2 THEN "sla.cldj: bad month = " \o ToString(month)
    ELSE NoErr

\* the status checks: the message set before return NULL, NoErr when mjd is returned
cldj_error(status, year, month, day) ==
    IF status = 1 THEN "sla.cldj: bad year = " \o ToString(year)
    ELSE IF status = 2 THEN "sla.cldj: bad month = " \o ToString(month)
    ELSE IF status = 3 THEN "sla.cldj: bad day = " \o ToString(day)
    ELSE NoErr

sla_cldj(t, year, month, day) ==
    LET r == cldj_call(t, year, month, day)
        e == cldj_error(r.status, year, month, day)
    IN  st' = [st EXCEPT ![t] =
                 [op |-> "cldj", args |-> [year |-> year, month |-> month, day |-> day],
                  err |-> e, res |-> IF e = NoErr THEN <<r.mjd>> ELSE << >>,
                  trace |-> <<"slaCldj">>, loc |-> r]]

(* ----------------------------- sla_utc2tdb ----------------------------- *)

\* mutant: the checks placed after the first computations (slaGeoc and the scaling)
Fail_late(op, a, e) ==
    [op |-> op, args |-> a, err |-> e, res |-> << >>, trace |-> <<"slaGeoc">>,
     loc |-> [u |-> slaGeoc(CFAC * a.latitude, a.height)[1] * AU,
              v |-> slaGeoc(CFAC * a.latitude, a.height)[2] * AU]]

\* PyErr_SetString(PyExc_ValueError, e); return NULL;  straight after the checks
Fail(op, a, e) ==
    [op |-> op, args |-> a, err |-> e, res |-> << >>, trace |-> << >>, loc |-> NoLoc]

\* mutant: ra >= 24 rejected
utc2tdb_check_halfopen(longitude, latitude, ra, dec) ==
    IF longitude < -360 \/ longitude > 360
    THEN "sla.utc2tdb: longituge out of range -360 to +360"
    ELSE IF latitude < -90 \/ latitude > 90
    THEN "sla.utc2tdb: latitude out of range -90 to +90"
    ELSE IF ra < 0 \/ ra >= 24
    THEN "sla.utc2tdb: ra out of range 0 to 24"
    ELSE IF dec < -90 \/ dec > 90
    THEN "sla.utc2tdb: declination out of range -90 to +90"
    ELSE NoErr

utc2tdb_check(longitude, latitude, ra, dec) ==
    IF longitude < -360 \/ longitude > 360
    THEN "sla.utc2tdb: longituge out of range -360 to +360"
    ELSE IF latitude < -90 \/ latitude > 90
    THEN "sla.utc2tdb: latitude out of range -90 to +90"
    ELSE IF ra < 0 \/ ra > 24
    THEN "sla.utc2tdb: ra out of range 0 to 24"
    ELSE IF dec < -90 \/ dec > 90
    THEN "sla.utc2tdb: declination out of range -90 to +90"
    ELSE NoErr

\* int(utc), for utc >= 0
IntPart(utc) == (utc \div NdPerDay) * NdPerDay

\* mutant: the offset subtracted
tt_of_minus(utc) == utc - DivDAY(slaDtt(utc))
\* double tt = utc + slaDtt(utc)/Constants::DAY
tt_of(utc) == utc + DivDAY(slaDtt(utc))
\* double tdb = tt + slaRcc(tt, utc-int(utc), -longr, u, v)/Constants::DAY
tdb_of(tt, utc, longr, u, v) == tt + DivDAY(slaRcc(tt, utc - IntPart(utc), -longr, u, v))

\* mutant: hutc formed with the barycentric correction
lighttimes_bary(utc, tdb, hcorr, bcorr) ==
    [btdb |-> tdb + bcorr, htdb |-> tdb + hcorr, hutc |-> utc + bcorr]
\* btdb = tdb + bcorr; htdb = tdb + hcorr; hutc = utc + hcorr
lighttimes(utc, tdb, hcorr, bcorr) ==
    [btdb |-> tdb + bcorr, htdb |-> tdb + hcorr, hutc |-> utc + hcorr]

utc2tdb_trace ==
    <<"slaGeoc", "slaDtt", "slaRcc", "slaEpv", "slaGmst", "slaEqeqx", "slaPvobs",
      "slaPneqx", "slaDimxv", "slaDimxv", "slaEpj", "slaPm", "slaDcs2c">>

utc2tdb_body(a) ==
    LET latr   == CFAC * a.latitude
        longr  == CFAC * a.longitude
        rar    == CFAC * 15 * a.ra
        decr   == CFAC * a.dec
        pmrar  == (CFAC * a.pmra) \div 3600
        pmdecr == (CFAC * a.pmdec) \div 3600
        uv     == slaGeoc(latr, a.height)
        u      == uv[1] * AU
        v      == uv[2] * AU
        tt     == tt_of(a.utc)
        tdb    == tdb_of(tt, a.utc, longr, u, v)
        e      == slaEpv(tdb)
        last   == slaGmst(tdb) + longr + slaEqeqx(tdb)
        pv     == slaPvobs(latr, a.height, last)
        rnpb   == slaPneqx(tdb)
        padd   == slaDimxv(rnpb, <<pv[1], pv[2], pv[3]>>)
        vadd   == slaDimxv(rnpb, <<pv[4], pv[5], pv[6]>>)
        hpos   == VScale(VAdd(e.ph, padd), AU)
        hvel   == VelScale(VAdd(e.vh, vadd))
        bpos   == VScale(VAdd(e.pb, padd), AU)
        bvel   == VelScale(VAdd(e.vb, vadd))
        nepoch == slaEpj(a.utc)
        pm     == slaPm(rar, decr, pmrar, pmdecr, a.parallax, a.rv, a.epoch, nepoch)
        targ   == slaDcs2c(pm[1], pm[2])
        hcorr  == DivDAY(Dot(targ, hpos) \div C)
        bcorr  == DivDAY(Dot(targ, bpos) \div C)
        lt     == lighttimes(a.utc, tdb, hcorr, bcorr)
        vhel   == (-Dot(targ, hvel)) \div 1000
        vbar   == (-Dot(targ, bvel)) \div 1000
    IN  [op |-> "utc2tdb", args |-> a, err |-> NoErr,
         res |-> <<tt, tdb, lt.btdb, lt.hutc, lt.htdb, vhel, vbar>>,
         trace |-> utc2tdb_trace,
         loc |-> [latr |-> latr, longr |-> longr, rar |-> pm[1], decr |-> pm[2],
                  u |-> u, v |-> v, tt |-> tt, tdb |-> tdb, hpos |-> hpos, bpos |-> bpos,
                  nepoch |-> nepoch, targ |-> targ, hcorr |-> hcorr, bcorr |-> bcorr]]

sla_utc2tdb(t, a) ==
    LET e == utc2tdb_check(a.longitude, a.latitude, a.ra, a.dec)
    IN  st' = [st EXCEPT ![t] = IF e # NoErr THEN Fail("utc2tdb", a, e) ELSE utc2tdb_body(a)]

(* ------------------------------ sla_amass ------------------------------ *)

\* a bool compared with a double: true is 1.0, false is 0.0
BoolToDouble(b) == IF b THEN 1 ELSE 0

amass_check(longitude, latitude, ra, dec, wave) ==
    IF longitude < -360 \/ longitude > 360
    THEN "sla.amass: longituge out of range -360 to +360"
    ELSE IF latitude < -90 \/ latitude > 90
    THEN "sla.amass: latitude out of range -90 to +90"
    ELSE IF ra < 0 \/ ra > 24
    THEN "sla.amass: ra out of range 0 to 24"
    ELSE IF dec < -90 \/ dec > 90
    THEN "sla.amass: declination out of range -90 to +90"
    ELSE IF wave <= 0 \/ BoolToDouble(dec > wave) > 1000000
    THEN "sla.amass: declination out of range -90 to +90"
    ELSE NoErr

\* UT1-UTC, seconds; polar motion, radians
DUT == 0
XP == 0
YP == 0
\* ambient temperature, K
T == 285
\* ambient pressure, 1e-2 mbar (1013.25)
P == 101325
\* relative humidity, per cent (0.2)
RH == 20
\* lapse rate, 1e-4 K/metre (0.0065)
TLR == 65

\* haob *= 24./Constants::TWOPI: radians (arcseconds) to hours (1/108000 hour)
ToHours(ha) == (ha * 24) \div (TWOPI \div 108000)
\* a double that holds hours (1/108000 hour), read by a routine that takes radians
\* (arcseconds): the same number is 206265/108000 = 1.91 times as many arcseconds
HoursReadAsRadians(h) == (h * 191) \div 100

\* the hour angle handed to slaPa: the variable haob as it is at that line, after
\* haob *= 24./Constants::TWOPI
amass_pa_ha(haob_rad) == HoursReadAsRadians(ToHours(haob_rad))

\* paob = paob > 0. ? paob : 360.+paob
pa_norm(paob) == IF paob > 0 THEN paob ELSE 360 + paob

amass_trace == <<"slaEpj", "slaPm", "slaI2o", "slaRefcoq", "slaAirmas", "slaPa">>

amass_body(a) ==
    LET latr    == CFAC * a.latitude
        longr   == CFAC * a.longitude
        rar     == CFAC * 15 * a.ra
        decr    == CFAC * a.dec
        pmrar   == (CFAC * a.pmra) \div 3600
        pmdecr  == (CFAC * a.pmdec) \div 3600
        nepoch  == slaEpj(a.utc)
        pm      == slaPm(rar, decr, pmrar, pmdecr, a.parallax, a.rv, a.epoch, nepoch)
        o       == slaI2o(pm[1], pm[2], a.utc, DUT, longr, latr, a.height, XP, YP,
                          T, P, RH, a.wave, TLR)
        ref     == slaRefcoq(T, P, RH, a.wave)
        tanz    == tan(o.zdob)
        delz    == (tanz * (ref.refa + ref.refb * tanz * tanz)) \div CFAC
        haob    == ToHours(o.haob)
        altob   == 90 - o.zdob \div CFAC
        airmass == slaAirmas(o.zdob)
        azob    == o.azob \div CFAC
        pa_ha   == amass_pa_ha(o.haob)
        pa_raw  == slaPa(pa_ha, pm[2], latr) \div CFAC
        paob    == pa_norm(pa_raw)
    IN  [op |-> "amass", args |-> a, err |-> NoErr,
         res |-> <<airmass, altob, azob, haob, paob, delz>>,
         trace |-> amass_trace,
         loc |-> [latr |-> latr, longr |-> longr, rar |-> pm[1], decr |-> pm[2],
                  nepoch |-> nepoch, zdob |-> o.zdob, haob_rad |-> o.haob, haob |-> haob,
                  pa_ha |-> pa_ha, pa_dec |-> pm[2], pa_phi |-> latr, pa_raw |-> pa_raw]]

sla_amass(t, a) ==
    LET e == amass_check(a.longitude, a.latitude, a.ra, a.dec, a.wave)
    IN  st' = [st EXCEPT ![t] = IF e # NoErr THEN Fail("amass", a, e) ELSE amass_body(a)]

(* ------------------------------- return -------------------------------- *)

\* the caller has taken the result tuple or the exception: nothing of the call is kept
Return(t) == st[t].op # "idle" /\ st' = [st EXCEPT ![t] = Idle]

(* --------------------------- specifications ---------------------------- *)

UtcSet == {250000000, 1000000000, 1500000000}
LonSet == {-361, -360, 15, 360, 400}
LatSet == {-91, -90, 29, 90, 91}
RaSet == {-1, 0, 3, 7, 24, 25}
DecSet == {-91, -90, -17, 90, 91}
WaveSet == {-1, 0, 1, 1000000, 2000000}
PmSet == {0, 10}
YearSet == {-4700, -4699, 1900, 2000, 2023, 2024}
MonthSet == {0, 1, 2, 4, 12, 13}
DaySet == {0, 1, 28, 29, 30, 31, 32}

Utc2tdbArgs(U, LO, LA, R, D, PM) ==
    [utc : U, longitude : LO, latitude : LA, height : {2396}, ra : R, dec : D,
     pmra : PM, pmdec : {0}, epoch : {2000000}, parallax : {0}, rv : {0}]
AmassArgs(U, LO, LA, R, D, W, PM) ==
    [utc : U, longitude : LO, latitude : LA, height : {2396}, ra : R, dec : D, wave : W,
     pmra : PM, pmdec : {0}, epoch : {2000000}, parallax : {0}, rv : {0}]

Init == st = [t \in {1} |-> Idle]

Next ==
    \E t \in DOMAIN st :
        \/ st[t].op = "idle" /\ \E utc \in UtcSet : sla_dtt(t, utc)
        \/ st[t].op = "idle" /\ \E y \in YearSet, m \in MonthSet, d \in DaySet : sla_cldj(t, y, m, d)
        \/ st[t].op = "idle"
           /\ \E a \in Utc2tdbArgs(UtcSet, LonSet, LatSet, RaSet, DecSet, PmSet) : sla_utc2tdb(t, a)
        \/ st[t].op = "idle"
           /\ \E a \in AmassArgs(UtcSet, LonSet, LatSet, RaSet, DecSet, WaveSet, PmSet) : sla_amass(t, a)
        \/ Return(t)

Spec == Init /\ [][Next]_vars

(* Several callers, each holding the outcome of its latest call until it returns. *)

NThreads == 2

InitConc == st = [t \in 1..NThreads |-> Idle]

NextConc ==
    \E t \in DOMAIN st :
        \/ st[t].op = "idle" /\ \E utc \in {250000000, 1000000000} : sla_dtt(t, utc)
        \/ st[t].op = "idle"
           /\ \E y \in {1900, 2000}, m \in {2, 13}, d \in {29, 30} : sla_cldj(t, y, m, d)
        \/ st[t].op = "idle"
           /\ \E a \in Utc2tdbArgs({250000000, 1000000000}, {15, 400}, {29}, {3, 25}, {-17}, {10}) :
                 sla_utc2tdb(t, a)
        \/ st[t].op = "idle"
           /\ \E a \in AmassArgs({250000000}, {15}, {29}, {3, 7}, {-17, 91}, {0, 1}, {0}) :
                 sla_amass(t, a)
        \/ Return(t)

SpecConc == InitConc /\ [][NextConc]_vars

(* -------------------------------- claims ------------------------------- *)

Called(t, op) == st[t].op = op
RangeChecked(t) == st[t].op \in {"utc2tdb", "amass"}
Failed(t) == st[t].op # "idle" /\ st[t].err # NoErr
Succeeded(t) == st[t].op # "idle" /\ st[t].err = NoErr
\* the site, the declination and (for sla_amass) the wavelength are in range
OthersValid(t) ==
    LET a == st[t].args
    IN  /\ a.longitude >= -360 /\ a.longitude <= 360
        /\ a.latitude >= -90 /\ a.latitude <= 90
        /\ a.dec >= -90 /\ a.dec <= 90
        /\ (st[t].op = "amass" => a.wave > 0 /\ a.wave <= 1000000)

C2_WaveRange ==
    \A t \in DOMAIN st :
        (/\ Called(t, "amass")
         /\ st[t].args.longitude >= -360 /\ st[t].args.longitude <= 360
         /\ st[t].args.latitude >= -90 /\ st[t].args.latitude <= 90
         /\ st[t].args.ra >= 0 /\ st[t].args.ra < 24
         /\ st[t].args.dec >= -90 /\ st[t].args.dec <= 90)
            => (Failed(t) <=> (st[t].args.wave <= 0 \/ st[t].args.wave > 1000000))

\* the field a range-error message names
NamedField(msg) ==
    IF msg \in {"sla.utc2tdb: longituge out of range -360 to +360",
                "sla.amass: longituge out of range -360 to +360"} THEN "longitude"
    ELSE IF msg \in {"sla.utc2tdb: latitude out of range -90 to +90",
                     "sla.amass: latitude out of range -90 to +90"} THEN "latitude"
    ELSE IF msg \in {"sla.utc2tdb: ra out of range 0 to 24",
                     "sla.amass: ra out of range 0 to 24"} THEN "ra"
    ELSE IF msg \in {"sla.utc2tdb: declination out of range -90 to +90",
                     "sla.amass: declination out of range -90 to +90"} THEN "declination"
    ELSE "none"
\* the field whose check failed: the first, in the order of the checks, out of range
FailedField(t) ==
    LET a == st[t].args
    IN  IF a.longitude < -360 \/ a.longitude > 360 THEN "longitude"
        ELSE IF a.latitude < -90 \/ a.latitude > 90 THEN "latitude"
        ELSE IF a.ra < 0 \/ a.ra > 24 THEN "ra"
        ELSE IF a.dec < -90 \/ a.dec > 90 THEN "declination"
        ELSE "wavelength"

\* C3: every range error of sla_utc2tdb or sla_amass names the field whose check
\* failed, and no failure is reported under the name of another field.
C3_ErrorNamesField ==
    \A t \in DOMAIN st :
        RangeChecked(t) /\ Failed(t) => NamedField(st[t].err) = FailedField(t)

\* C4 as stated: in every failing call of sla_utc2tdb, sla_amass or sla_cldj no
\* library routine has been invoked and no intermediate value computed.
C4_NothingBeforeError ==
    \A t \in DOMAIN st :
        Failed(t) => st[t].trace = << >> /\ st[t].loc = NoLoc

\* C4 amended: a failing sla_utc2tdb or sla_amass call has invoked no library routine
\* and computed no intermediate value; a failing sla_cldj call has invoked slaCldj,
\* which does the validation, and nothing else.
C4_ErrorBeforeDownstream ==
    \A t \in DOMAIN st :
        Failed(t) =>
            IF Called(t, "cldj") THEN st[t].trace = <<"slaCldj">>
            ELSE st[t].trace = << >> /\ st[t].loc = NoLoc

C4_Witness ==
    \E t \in DOMAIN st :
        /\ Called(t, "amass") /\ Failed(t)
        /\ FailedField(t) = "wavelength" /\ st[t].args.wave <= 0
        /\ st[t].trace = << >>

C6_PaNormalized ==
    \A t \in DOMAIN st :
        Called(t, "amass") /\ Succeeded(t) => st[t].res[5] >= 0 /\ st[t].res[5] < 360

\* C7: sla_cldj returns an MJD if and only if year, month and day are all valid;
\* otherwise it returns no MJD and fails with exactly one of the three errors bad year,
\* bad month, bad day, and the error names a field that is wrong.
C7_CldjErrors ==
    \A t \in DOMAIN st :
        Called(t, "cldj") =>
            LET y       == st[t].args.year
                m       == st[t].args.month
                d       == st[t].args.day
                yearOK  == y >= -4699
                monthOK == m >= 1 /\ m <= 12
                dayOK   == monthOK /\ d >= 1 /\ d <= MonthLen(y, m)
                badY    == "sla.cldj: bad year = " \o ToString(y)
                badM    == "sla.cldj: bad month = " \o ToString(m)
                badD    == "sla.cldj: bad day = " \o ToString(d)
            IN  /\ (st[t].res # << >>) <=> (yearOK /\ monthOK /\ dayOK)
                /\ st[t].res # << >> => st[t].err = NoErr /\ st[t].res = <<CldjMjd(y, m, d)>>
                /\ st[t].res = << >> => st[t].err \in {badY, badM, badD}
                /\ st[t].err = badY => ~yearOK
                /\ st[t].err = badM => ~monthOK
                /\ st[t].err = badD => monthOK /\ ~dayOK
                /\ (y = 2000 /\ m = 1 /\ d = 1) => st[t].res = <<51544>>

\* 30 February 1900 is refused as a bad day
C7_Witness ==
    \E t \in DOMAIN st :
        /\ Called(t, "cldj")
        /\ st[t].args = [year |-> 1900, month |-> 2, day |-> 30]
        /\ st[t].err = "sla.cldj: bad day = 30" /\ st[t].res = << >>

\* C8 as stated: every successful sla_utc2tdb call with TT-UTC > 0 returns tt >= utc and
\* tt >= tdb - epsilon, epsilon of sub-microsecond size (here a whole 1e-9 day, 86.4
\* microseconds).
C8_SubMicrosecond ==
    \A t \in DOMAIN st :
        Called(t, "utc2tdb") /\ Succeeded(t) /\ slaDtt(st[t].args.utc) > 0
            => st[t].res[1] >= st[t].args.utc /\ st[t].res[1] >= st[t].res[2] - 1

\* C8 amended: tt = utc + (TT-UTC)/86400, so tt >= utc when TT-UTC > 0, and
\* tdb = tt + (relativistic clock correction)/86400, so tt >= tdb - epsilon only for an
\* epsilon of the size of the clock correction's amplitude (2 ms, 2.3e-8 day).
C8_Ordering ==
    \A t \in DOMAIN st :
        Called(t, "utc2tdb") /\ Succeeded(t) =>
            LET a   == st[t].args
                l   == st[t].loc
                tt  == st[t].res[1]
                tdb == st[t].res[2]
            IN  /\ tt = a.utc + DivDAY(slaDtt(a.utc))
                /\ slaDtt(a.utc) > 0 => tt >= a.utc
                /\ tdb = tt + DivDAY(slaRcc(tt, a.utc - IntPart(a.utc), -l.longr, l.u, l.v))
                /\ tt >= tdb - DivDAY(2)

\* a successful call whose clock correction is positive: tdb is later than tt
C8_Witness ==
    \E t \in DOMAIN st :
        /\ Called(t, "utc2tdb") /\ Succeeded(t)
        /\ slaDtt(st[t].args.utc) > 0
        /\ st[t].res[2] > st[t].res[1]

C10_PaInRadians ==
    \A t \in DOMAIN st :
        Called(t, "amass") /\ Succeeded(t) =>
            /\ st[t].loc.pa_ha = st[t].loc.haob_rad
            /\ st[t].loc.pa_dec = st[t].loc.decr
            /\ st[t].loc.pa_phi = st[t].loc.latr

====
